---- MODULE Spec2Model ----
(***************************************************************************)
(* Model of the playbook verifier proof of concept: the main pipeline      *)
(* (readPlaybook -> UnmarshalPlaybook -> CleanPlaybook -> MarshallPlaybook *)
(* -> fmt.Println), the exclusion extraction, the two-level filter and the *)
(* ordereddict serializer.                                                 *)
(*                                                                         *)
(* Strings are sequences of one-character strings, so that splitting on    *)
(* ',' and '/', trimming a prefix and comparing keys are computed and not   *)
(* assumed.  A Go value of dynamic type (interface{}) is a record with a    *)
(* tag: "map" (yaml.MapSlice), "list" ([]interface{}), "bool", "str",      *)
(* "int" and "null" (the nil interface).  A Go call returns a record whose  *)
(* kind is "ok", "error" (a non-nil error value) or "panic" (a failed type  *)
(* assertion or a nil dereference: the runtime aborts the process).        *)
(* Every mapping key of the model is a string, and the keys of one mapping  *)
(* are distinct; YAML keys of other types are outside the model.           *)
(***************************************************************************)
EXTENDS Integers, Sequences, FiniteSets, TLC

VARIABLES
    pc,          \* where main is: start, read, parsed, cleaned, serialized, done, panic
    world,       \* what the playbook source holds, as readPlaybook and yaml.Unmarshal see it
    dirty,       \* main's dirty: the parsed playbook
    clean,       \* main's clean: the *yaml.MapSlice CleanPlaybook returned
    serialized,  \* main's serialized: the bytes MarshallPlaybook returned
    stdout,      \* the lines written to standard output
    stderr,      \* the errors reported through slog.Error by main, in order
    ran          \* the stages main has called so far

vars == <<pc, world, dirty, clean, serialized, stdout, stderr, ran>>

\* The largest number of comma-separated path expressions in an exclusion string.
MaxPaths == 2

-----------------------------------------------------------------------------
(* Strings *)

Slash == "/"
Comma == ","

KVars    == <<"v","a","r","s">>
KHosts   == <<"h","o","s","t","s">>
KHostsUC == <<"H","o","s","t","s">>
KName    == <<"n","a","m","e">>
KOther   == <<"o","t","h","e","r">>
KExclude == <<"i","n","s","i","g","h","t","s","_","s","i","g","n","a","t","u","r","e",
              "_","e","x","c","l","u","d","e">>

\* strings.TrimPrefix(s, "/")
TrimPrefix(s) == IF Len(s) > 0 /\ Head(s) = Slash THEN Tail(s) ELSE s

\* strings.Split(s, sep) for a one-character separator: one piece more than
\* there are separators, the k-th piece lying between the (k-1)-th and the k-th
\* separator; the empty string splits into one empty piece.
Split(s, sep) ==
    LET at == { i \in 1..Len(s) : s[i] = sep }
        pos(k) == IF k = 0 THEN 0
                  ELSE IF k > Cardinality(at) THEN Len(s) + 1
                  ELSE CHOOSE i \in at : Cardinality({ j \in at : j <= i }) = k
    IN  [k \in 1..(Cardinality(at) + 1) |-> SubSeq(s, pos(k - 1) + 1, pos(k) - 1)]

-----------------------------------------------------------------------------
(* Values of dynamic type, as yaml.v2 decodes them into a yaml.MapSlice *)

\* Each tag has a field of its own for what it carries, so that two values of
\* different tags differ as records without their contents being compared.
MapV(items)  == [tag |-> "map",  items |-> items]
ListV(elems) == [tag |-> "list", elems |-> elems]
BoolV(b)     == [tag |-> "bool", b |-> b]
StrV(s)      == [tag |-> "str",  s |-> s]
IntV(n)      == [tag |-> "int",  n |-> n]
NullV        == [tag |-> "null"]

\* yaml.MapItem{Key, Value}
MapItem(k, v) == [key |-> k, value |-> v]

\* What a Go call hands back: a value with a nil error, a non-nil error value,
\* or no return at all because the runtime panicked.
Ok(v)     == [kind |-> "ok",    val |-> v,     err |-> ""]
Err(name) == [kind |-> "error", val |-> <<>>,  err |-> name]
Panic     == [kind |-> "panic", val |-> <<>>,  err |-> ""]

\* var DynamicLabels: the top-level keys that may be excluded.  No function of
\* main.go reads it.
DynamicLabels == {KHosts, KVars}

-----------------------------------------------------------------------------
(* GetPlaybookExclusions *)

\* The inner loop over the entries of `vars`: the first entry whose key is
\* insights_signature_exclude sets rawExclusions through the type assertion
\* pair.Value.(string) and breaks.
RECURSIVE ScanVars(_, _)
ScanVars(items, raw) ==
    IF items = <<>> THEN Ok(raw)
    ELSE IF Head(items).key # KExclude THEN ScanVars(Tail(items), raw)
    ELSE IF Head(items).value.tag # "str" THEN Panic
    ELSE Ok(Head(items).value.s)

\* The outer loop over the top-level entries: every entry whose key is vars is
\* asserted to be a yaml.MapSlice and scanned; the loop does not break.
RECURSIVE ScanPlaybook(_, _)
ScanPlaybook(items, raw) ==
    IF items = <<>> THEN Ok(raw)
    ELSE IF Head(items).key # KVars THEN ScanPlaybook(Tail(items), raw)
    ELSE IF Head(items).value.tag # "map" THEN Panic
    ELSE LET inner == ScanVars(Head(items).value.items, raw)
         IN  IF inner.kind # "ok" THEN inner
             ELSE ScanPlaybook(Tail(items), inner.val)

\* strings.Split(strings.TrimPrefix(exclusion, "/"), "/") for each piece of
\* strings.Split(rawExclusions, ",")
ParseExclusions(raw) ==
    LET pieces == Split(raw, Comma)
    IN  [i \in 1..Len(pieces) |-> Split(TrimPrefix(pieces[i]), Slash)]

GetPlaybookExclusions(p) ==
    LET scan == ScanPlaybook(p, <<>>)
    IN  IF scan.kind # "ok" THEN scan
        ELSE IF scan.val = <<>> THEN Err("PlaybookError")
        ELSE Ok(ParseExclusions(scan.val))

-----------------------------------------------------------------------------
(* CleanPlaybook *)

\* SkipNested without the comparison of the parent key: a two-segment path
\* removes its child from every mapping.
SkipNestedAnyParent(directValueName, nestedValueName, excl) ==
    \E i \in 1..Len(excl) :
        /\ Len(excl[i]) = 2
        /\ nestedValueName = excl[i][2]

\* for _, exclusion := range exclusions { if directValueName == exclusion[0] &&
\*     len(exclusion) == 2 && nestedValueName == exclusion[1] { skip = true } }
SkipNested(directValueName, nestedValueName, excl) ==
    \E i \in 1..Len(excl) :
        /\ directValueName = excl[i][1]
        /\ Len(excl[i]) = 2
        /\ nestedValueName = excl[i][2]

\* for _, exclusion := range exclusions { if directValueName == exclusion[0] &&
\*     len(exclusion) == 1 { skip = true } }
SkipDirect(directValueName, excl) ==
    \E i \in 1..Len(excl) :
        /\ directValueName = excl[i][1]
        /\ Len(excl[i]) = 1

\* The inner loop: newDirectValue collects the nested entries that are not skipped.
RECURSIVE CleanNested(_, _, _)
CleanNested(directValueName, items, excl) ==
    IF items = <<>> THEN <<>>
    ELSE IF SkipNested(directValueName, Head(items).key, excl)
         THEN CleanNested(directValueName, Tail(items), excl)
         ELSE <<MapItem(Head(items).key, Head(items).value)>>
              \o CleanNested(directValueName, Tail(items), excl)

\* CleanLoop deleting in place while it iterates: the entry that follows a
\* dropped one moves into its index and is never examined.
RECURSIVE CleanLoopInPlace(_, _)
CleanLoopInPlace(items, excl) ==
    IF items = <<>> THEN <<>>
    ELSE LET directValue == Head(items)
         IN  IF directValue.value.tag = "map"
             THEN <<MapItem(directValue.key,
                            MapV(CleanNested(directValue.key, directValue.value.items, excl)))>>
                  \o CleanLoopInPlace(Tail(items), excl)
             ELSE IF SkipDirect(directValue.key, excl)
                  THEN IF Tail(items) = <<>> THEN <<>>
                       ELSE <<Head(Tail(items))>> \o CleanLoopInPlace(Tail(Tail(items)), excl)
                  ELSE <<directValue>> \o CleanLoopInPlace(Tail(items), excl)

\* The outer loop: a yaml.MapSlice value is rebuilt from its nested entries and
\* always kept; any other value is dropped when a one-segment exclusion names it.
RECURSIVE CleanLoop(_, _)
CleanLoop(items, excl) ==
    IF items = <<>> THEN <<>>
    ELSE LET directValue == Head(items)
         IN  IF directValue.value.tag = "map"
             THEN <<MapItem(directValue.key,
                            MapV(CleanNested(directValue.key, directValue.value.items, excl)))>>
                  \o CleanLoop(Tail(items), excl)
             ELSE IF SkipDirect(directValue.key, excl)
                  THEN CleanLoop(Tail(items), excl)
                  ELSE <<directValue>> \o CleanLoop(Tail(items), excl)

CleanPlaybook(p) ==
    LET got == GetPlaybookExclusions(p)
    IN  IF got.kind # "ok" THEN got
        ELSE Ok(CleanLoop(p, got.val))

-----------------------------------------------------------------------------
(* MarshallPlaybook *)

OrderedDictOpen  == <<"o","r","d","e","r","e","d","d","i","c","t","(","[">>
OrderedDictClose == <<"]",")">>
Separator        == <<",", " ">>
Quote            == <<"'">>

RECURSIVE marshallPlaybookItem(_), marshallPlaybookPairs(_, _, _),
          marshallPlaybookItems(_, _, _)

\* The loop of marshallPlaybookMap from index i on, result being the bytes so far.
marshallPlaybookPairs(m, i, result) ==
    IF i > Len(m) THEN Ok(result \o OrderedDictClose)
    ELSE LET value == marshallPlaybookItem(m[i].value)
         IN  IF value.kind # "ok" THEN value
             ELSE marshallPlaybookPairs(m, i + 1,
                      result \o (IF i > 1 THEN Separator ELSE <<>>)
                             \o <<"(", "'">> \o m[i].key \o <<"'", ",", " ">>
                             \o value.val \o <<")">>)

marshallPlaybookMap(m) == marshallPlaybookPairs(m, 1, OrderedDictOpen)

\* The loop of marshallPlaybookList from index i on.
marshallPlaybookItems(l, i, result) ==
    IF i > Len(l) THEN Ok(result \o <<"]">>)
    ELSE LET value == marshallPlaybookItem(l[i])
         IN  IF value.kind # "ok" THEN value
             ELSE marshallPlaybookItems(l, i + 1,
                      result \o (IF i > 1 THEN Separator ELSE <<>>) \o value.val)

marshallPlaybookList(l) == marshallPlaybookItems(l, 1, <<"[">>)

\* The type switch.  Its default branch is the type assertion item.(string) on a
\* value that is no string (the string case came before it): a runtime panic.
marshallPlaybookItem(item) ==
    CASE item.tag = "map"  -> marshallPlaybookMap(item.items)
      [] item.tag = "list" -> marshallPlaybookList(item.elems)
      [] item.tag = "bool" -> Ok(IF item.b THEN <<"T","r","u","e">>
                                             ELSE <<"F","a","l","s","e">>)
      [] item.tag = "str"  -> Ok(Quote \o item.s \o Quote)
      [] OTHER             -> Panic

\* A *yaml.MapSlice: nil, or the address of a mapping.
NilPtr   == [tag |-> "nil"]
PtrTo(m) == [tag |-> "ptr", to |-> m]

\* marshallPlaybookMap(*p): dereferencing a nil pointer panics.
MarshallPlaybook(p) ==
    IF p.tag = "nil" THEN Panic ELSE marshallPlaybookMap(p.to)

-----------------------------------------------------------------------------
(* The inputs *)

\* The path expressions an exclusion string is made of.
PathExprs ==
    { <<Slash>> \o KHosts,                                \* /hosts
      <<Slash>> \o KVars \o <<Slash>> \o KExclude,        \* /vars/insights_signature_exclude
      <<Slash>> \o KVars \o <<Slash>> \o KOther,          \* /vars/other
      <<Slash>> \o KName,                                 \* /name
      <<Slash>> \o KVars,                                 \* /vars
      <<Slash>> \o KHostsUC,                              \* /Hosts
      KHostsUC \o <<Slash>> \o KOther,                    \* Hosts/other
      <<Slash>> \o KVars \o <<Slash>> \o KOther \o <<Slash, "x">>,  \* /vars/other/x
      <<>> }                                              \* the empty expression

RECURSIVE JoinComma(_)
JoinComma(exprs) ==
    IF Len(exprs) = 1 THEN exprs[1]
    ELSE exprs[1] \o <<Comma>> \o JoinComma(Tail(exprs))

\* The exclusion strings: 1..MaxPaths path expressions joined by commas.  The
\* empty string is among them (the one empty expression).
RawExclusions ==
    { JoinComma(e) : e \in UNION { [1..n -> PathExprs] : n \in 1..MaxPaths } }

RECURSIVE SubSeqs(_)
SubSeqs(s) ==
    IF s = <<>> THEN { <<>> }
    ELSE LET rest == SubSeqs(Tail(s))
         IN  rest \cup { <<Head(s)>> \o t : t \in rest }

\* The values of the top-level `vars` entry: mappings that declare the
\* exclusions before or after another variable, mappings that declare none or
\* declare them with a number, and a `vars` that is no mapping.
VarsValues ==
    UNION { SubSeqs(<<MapItem(KExclude, StrV(raw)), MapItem(KOther, IntV(1))>>)
            \cup { <<MapItem(KOther, IntV(1)), MapItem(KExclude, StrV(raw))>> }
            : raw \in RawExclusions }

VarsEntries ==
    { MapItem(KVars, MapV(v)) : v \in VarsValues }
    \cup { MapItem(KVars, MapV(<<MapItem(KExclude, IntV(1))>>)),
           MapItem(KVars, StrV(<<"x">>)) }

NameEntry  == MapItem(KName, StrV(<<"D","e","m","o">>))
HostsEntry == MapItem(KHosts, ListV(<<StrV(<<"h","1">>), BoolV(TRUE)>>))
OtherMap   == MapItem(KHostsUC, MapV(<<MapItem(KOther, NullV), MapItem(KName, BoolV(FALSE))>>))

\* The playbooks: the entries name, hosts, vars and a second mapping, in this
\* order or in the reverse one, with any of them left out.
Playbooks ==
    UNION { SubSeqs(<<NameEntry, HostsEntry, v, OtherMap>>)
            \cup SubSeqs(<<OtherMap, v, HostsEntry, NameEntry>>)
            : v \in VarsEntries }

\* What the source holds: something unreadable, bytes that are no YAML, or a
\* YAML list of zero, one or two playbooks.
Worlds ==
    { [readErr |-> TRUE,  yamlErr |-> FALSE, data |-> <<>>],
      [readErr |-> FALSE, yamlErr |-> TRUE,  data |-> <<>>],
      [readErr |-> FALSE, yamlErr |-> FALSE, data |-> <<>>],
      [readErr |-> FALSE, yamlErr |-> FALSE, data |-> << <<NameEntry>>, <<HostsEntry>> >>] }
    \cup { [readErr |-> FALSE, yamlErr |-> FALSE, data |-> <<p>>] : p \in Playbooks }

-----------------------------------------------------------------------------
(* main *)

\* readPlaybook: io.ReadAll(os.Stdin) or os.ReadFile(source.path)
readPlaybook(w) == IF w.readErr THEN Err("ReadError") ELSE Ok(w)

UnmarshalPlaybook(w) ==
    IF w.yamlErr THEN Err("YamlError")
    ELSE IF Len(w.data) = 0 THEN Err("PlaybookError")
    ELSE IF Len(w.data) > 1 THEN Err("PlaybookError")
    ELSE Ok(w.data[1])

Init ==
    /\ pc = "start"
    /\ world \in Worlds
    /\ dirty = <<>>
    /\ clean = NilPtr
    /\ serialized = <<>>
    /\ stdout = <<>>
    /\ stderr = <<>>
    /\ ran = {}

\* rawPlaybook, err := readPlaybook(source); on an error: report and return.
MainRead ==
    /\ pc = "start"
    /\ ran' = ran \cup {"read"}
    /\ LET r == readPlaybook(world)
       IN  IF r.kind = "error"
           THEN /\ stderr' = Append(stderr, "error getting playbook content")
                /\ pc' = "done"
           ELSE /\ stderr' = stderr
                /\ pc' = "read"
    /\ UNCHANGED <<world, dirty, clean, serialized, stdout>>

\* dirty, err := UnmarshalPlaybook(rawPlaybook); on an error: report and return.
MainUnmarshal ==
    /\ pc = "read"
    /\ ran' = ran \cup {"unmarshal"}
    /\ LET r == UnmarshalPlaybook(world)
       IN  IF r.kind = "error"
           THEN /\ stderr' = Append(stderr, "could not parse playbook")
                /\ pc' = "done"
                /\ dirty' = dirty
           ELSE /\ stderr' = stderr
                /\ pc' = "parsed"
                /\ dirty' = r.val
    /\ UNCHANGED <<world, clean, serialized, stdout>>

\* clean, err := CleanPlaybook(&dirty); on an error: report, and go on.
MainClean ==
    /\ pc = "parsed"
    /\ ran' = ran \cup {"clean"}
    /\ LET r == CleanPlaybook(dirty)
       IN  CASE r.kind = "panic" ->
                  /\ pc' = "panic"
                  /\ UNCHANGED <<clean, stderr>>
             [] r.kind = "error" ->
                  /\ stderr' = Append(stderr, "could not clean playbook")
                  /\ clean' = NilPtr
                  /\ pc' = "cleaned"
             [] OTHER ->
                  /\ stderr' = stderr
                  /\ clean' = PtrTo(r.val)
                  /\ pc' = "cleaned"
    /\ UNCHANGED <<world, dirty, serialized, stdout>>

\* serialized, err := MarshallPlaybook(clean); on an error: report, and go on.
MainMarshall ==
    /\ pc = "cleaned"
    /\ ran' = ran \cup {"marshall"}
    /\ LET r == MarshallPlaybook(clean)
       IN  CASE r.kind = "panic" ->
                  /\ pc' = "panic"
                  /\ UNCHANGED <<serialized, stderr>>
             [] r.kind = "error" ->
                  /\ stderr' = Append(stderr, "could not serialize playbook")
                  /\ serialized' = <<>>
                  /\ pc' = "serialized"
             [] OTHER ->
                  /\ stderr' = stderr
                  /\ serialized' = r.val
                  /\ pc' = "serialized"
    /\ UNCHANGED <<world, dirty, clean, stdout>>

\* fmt.Println(string(serialized)); return
MainPrint ==
    /\ pc = "serialized"
    /\ ran' = ran \cup {"print"}
    /\ stdout' = Append(stdout, serialized)
    /\ pc' = "done"
    /\ UNCHANGED <<world, dirty, clean, serialized, stderr>>

Next == MainRead \/ MainUnmarshal \/ MainClean \/ MainMarshall \/ MainPrint

Spec == Init /\ [][Next]_vars

-----------------------------------------------------------------------------
(* What the claims speak of *)

Keys(items) == [i \in 1..Len(items) |-> items[i].key]

HasKey(items, k) == \E i \in 1..Len(items) : items[i].key = k

\* The value under key k (the keys of a playbook of the model are distinct).
ValueOf(items, k) == items[CHOOSE i \in 1..Len(items) : items[i].key = k].value

Reported(msg) == \E i \in 1..Len(stderr) : stderr[i] = msg

\* The document declares its exclusions: vars is a mapping whose
\* insights_signature_exclude is a string.
Declares(p) ==
    /\ HasKey(p, KVars)
    /\ ValueOf(p, KVars).tag = "map"
    /\ HasKey(ValueOf(p, KVars).items, KExclude)
    /\ ValueOf(ValueOf(p, KVars).items, KExclude).tag = "str"

DeclaredRaw(p) == ValueOf(ValueOf(p, KVars).items, KExclude).s

\* The declared paths, as a set: each comma-separated expression, one leading
\* '/' stripped, cut at every '/'.
DeclaredPaths(p) ==
    LET e == ParseExclusions(DeclaredRaw(p))
    IN  { e[i] : i \in 1..Len(e) }

\* main has called CleanPlaybook and it returned a filtered document.
Cleaned == "clean" \in ran /\ clean.tag = "ptr"

\* The stages of main, in the order main calls them, and the report of each.
StageNo(stage) ==
    CASE stage = "read" -> 1 [] stage = "unmarshal" -> 2 [] stage = "clean" -> 3
      [] stage = "marshall" -> 4 [] stage = "print" -> 5

FailedStage(msg) ==
    CASE msg = "error getting playbook content" -> "read"
      [] msg = "could not parse playbook" -> "unmarshal"
      [] msg = "could not clean playbook" -> "clean"
      [] msg = "could not serialize playbook" -> "marshall"

\* C1: once a stage has failed and the failure is reported, main has called no
\* later stage and has written nothing to standard output.
C1_FailureAbortsRun ==
    \A i \in 1..Len(stderr) :
        /\ \A stage \in ran : StageNo(stage) <= StageNo(FailedStage(stderr[i]))
        /\ stdout = <<>>

\* A path expression with no segment (nothing is left after one leading '/' is
\* stripped) or with more than two segments.
Malformed(raw) ==
    LET pieces == Split(raw, Comma)
    IN  \E i \in 1..Len(pieces) :
            \/ TrimPrefix(pieces[i]) = <<>>
            \/ Len(Split(TrimPrefix(pieces[i]), Slash)) > 2

\* C2: when some declared path starts with a key outside the allow-set,
\* CleanPlaybook fails with a VerificationError and main holds no filtered
\* document.  (Stated for declarations whose paths all have one or two
\* segments; the others are the case of C3.)
C2_AllowSetEnforced ==
    ("clean" \in ran /\ Declares(dirty) /\ ~Malformed(DeclaredRaw(dirty))
        /\ \E path \in DeclaredPaths(dirty) : path[1] \notin DynamicLabels)
    => /\ CleanPlaybook(dirty) = Err("VerificationError")
       /\ clean = NilPtr

\* C3: when some declared path expression is empty or has more than two
\* segments, GetPlaybookExclusions and CleanPlaybook fail with a PlaybookError
\* and main holds no filtered document.
C3_MalformedPathRejected ==
    ("clean" \in ran /\ Declares(dirty) /\ Malformed(DeclaredRaw(dirty)))
    => /\ GetPlaybookExclusions(dirty) = Err("PlaybookError")
       /\ CleanPlaybook(dirty) = Err("PlaybookError")
       /\ clean = NilPtr

\* C4: when the document declares no exclusions (no vars, vars no mapping, no
\* insights_signature_exclude in it, or one that is no string),
\* GetPlaybookExclusions returns a PlaybookError, main does not crash in
\* CleanPlaybook, and nothing is written to standard output.
C4_MissingDeclarationIsError ==
    ("clean" \in ran /\ ~Declares(dirty))
    => /\ GetPlaybookExclusions(dirty) = Err("PlaybookError")
       /\ Reported("could not clean playbook")
       /\ stdout = <<>>

\* C5: a top-level key named by a one-segment path is absent from the filtered
\* document, whatever its value is; a top-level key named by no one-segment
\* path is still there, and when it is a mapping it has every child that no
\* two-segment path names.
C5_ParentRemovedChildKept ==
    Cleaned =>
        \A i \in 1..Len(dirty) :
            LET parent == dirty[i].key
            IN  IF <<parent>> \in DeclaredPaths(dirty)
                THEN ~HasKey(clean.to, parent)
                ELSE /\ HasKey(clean.to, parent)
                     /\ dirty[i].value.tag = "map" =>
                            \A n \in 1..Len(dirty[i].value.items) :
                                LET child == dirty[i].value.items[n]
                                IN  <<parent, child.key>> \notin DeclaredPaths(dirty)
                                    => /\ ValueOf(clean.to, parent).tag = "map"
                                       /\ HasKey(ValueOf(clean.to, parent).items, child.key)

\* C6: the top-level keys of the filtered document are those of the source
\* without the keys one-segment paths name, in the source's order; and the keys
\* of every nested mapping it keeps are those of the source mapping without the
\* keys two-segment paths name, in the source's order.
C6_OrderPreserved ==
    Cleaned =>
        /\ Keys(clean.to)
             = SelectSeq(Keys(dirty), LAMBDA k : <<k>> \notin DeclaredPaths(dirty))
        /\ \A j \in 1..Len(clean.to) :
              (clean.to[j].value.tag = "map" /\ ValueOf(dirty, clean.to[j].key).tag = "map")
              => Keys(clean.to[j].value.items)
                   = SelectSeq(Keys(ValueOf(dirty, clean.to[j].key).items),
                               LAMBDA n : <<clean.to[j].key, n>> \notin DeclaredPaths(dirty))

\* C7: nothing is removed but what a path names exactly.  A top-level entry
\* whose key no one-segment path equals is kept (with its value when it is no
\* mapping), and a nested entry whose parent key and own key no two-segment
\* path equals is kept under its parent with its value.
C7_NoOverDeletion ==
    Cleaned =>
        \A i \in 1..Len(dirty) :
            LET parent == dirty[i].key
            IN  /\ <<parent>> \notin DeclaredPaths(dirty)
                   => /\ HasKey(clean.to, parent)
                      /\ dirty[i].value.tag # "map"
                            => ValueOf(clean.to, parent) = dirty[i].value
                /\ dirty[i].value.tag = "map"
                   => \A n \in 1..Len(dirty[i].value.items) :
                        LET child == dirty[i].value.items[n]
                        IN  <<parent, child.key>> \notin DeclaredPaths(dirty)
                            => /\ HasKey(clean.to, parent)
                               /\ ValueOf(clean.to, parent).tag = "map"
                               /\ HasKey(ValueOf(clean.to, parent).items, child.key)
                               /\ ValueOf(ValueOf(clean.to, parent).items, child.key)
                                    = child.value

\* A filtered document from which `vars/other` is gone while the child `other`
\* of the second mapping and the list `hosts` are still there, although a path
\* names `Hosts`.
C7_Witness ==
    /\ Cleaned
    /\ DeclaredPaths(dirty) = { <<KVars, KOther>>, <<KHostsUC>> }
    /\ HasKey(dirty, KHosts) /\ HasKey(clean.to, KHosts)
    /\ HasKey(dirty, KHostsUC) /\ HasKey(ValueOf(clean.to, KHostsUC).items, KOther)
    /\ HasKey(ValueOf(dirty, KVars).items, KOther)
    /\ ~HasKey(ValueOf(clean.to, KVars).items, KOther)

RECURSIVE Flatten(_)
Flatten(bytes) ==
    IF Len(bytes) = 0 THEN ""
    ELSE IF Len(bytes) = 1 THEN bytes[1]
    ELSE Flatten(SubSeq(bytes, 1, Len(bytes) \div 2))
         \o Flatten(SubSeq(bytes, Len(bytes) \div 2 + 1, Len(bytes)))

\* The reference encoding: a mapping is ordereddict([...]) around its
\* ('<key>', <value>) pairs joined by ', ', a list is [...] around its elements
\* joined by ', ', a bool is True or False, a string stands in single quotes, a
\* number (here: one digit) and null stand unquoted in their string form.
RECURSIVE RefEncode(_), RefJoin(_)
RefJoin(pieces) ==
    IF pieces = <<>> THEN <<>>
    ELSE IF Len(pieces) = 1 THEN pieces[1]
    ELSE pieces[1] \o <<",", " ">> \o RefJoin(Tail(pieces))

RefEncode(v) ==
    CASE v.tag = "map" ->
           <<"o","r","d","e","r","e","d","d","i","c","t","(","[">>
           \o RefJoin([i \in 1..Len(v.items) |->
                  <<"(", "'">> \o v.items[i].key \o <<"'", ",", " ">>
                  \o RefEncode(v.items[i].value) \o <<")">>])
           \o <<"]", ")">>
      [] v.tag = "list" ->
           <<"[">> \o RefJoin([i \in 1..Len(v.elems) |-> RefEncode(v.elems[i])]) \o <<"]">>
      [] v.tag = "bool" -> IF v.b THEN <<"T","r","u","e">> ELSE <<"F","a","l","s","e">>
      [] v.tag = "str"  -> <<"'">> \o v.s \o <<"'">>
      [] v.tag = "int"  -> << <<"0","1","2","3","4","5","6","7","8","9">>[v.n + 1] >>
      [] v.tag = "null" -> <<"<","n","i","l",">">>

\* main has called MarshallPlaybook on a filtered document.
Marshalled == "marshall" \in ran /\ clean.tag = "ptr"

\* C9: MarshallPlaybook returns the reference encoding of the filtered document,
\* and main holds these bytes; {name: 'Demo', vars: {other: 1}} is encoded as
\* ordereddict([('name', 'Demo'), ('vars', ordereddict([('other', 1)]))]).
C9_ReferenceEncoding ==
    Marshalled =>
        /\ MarshallPlaybook(clean) = Ok(RefEncode(MapV(clean.to)))
        /\ pc \in {"serialized", "done"}
        /\ serialized = RefEncode(MapV(clean.to))
        /\ clean.to = <<NameEntry, MapItem(KVars, MapV(<<MapItem(KOther, IntV(1))>>))>>
           => Flatten(serialized)
                = "ordereddict([('name', 'Demo'), ('vars', ordereddict([('other', 1)]))])"

\* C10: MarshallPlaybook returns the whole encoding with a nil error, or no bytes
\* with a SerializationError; it does not crash.
C10_SerializationAllOrNothing ==
    Marshalled =>
        LET r == MarshallPlaybook(clean)
        IN  /\ r.kind # "panic"
            /\ pc # "panic"
            /\ r.kind = "error" => (r.err = "SerializationError" /\ r.val = <<>>)
            /\ r.kind = "ok" => SubSeq(r.val, Len(r.val) - 1, Len(r.val)) = <<"]", ")">>

====
